---- MODULE Spec2Model ----
(***************************************************************************)
(* Model of anomalib's MVTec dataset glue (src/anomalib/data/mvtec.py) and *)
(* of the callback assembly (src/anomalib/utils/callbacks/__init__.py).    *)
(*                                                                         *)
(* Strings built by concatenation are modelled as sequences of their       *)
(* components, the empty string as << >>.  A DataFrame is a sequence of    *)
(* rows, each row carrying its index label in the field id.                *)
(***************************************************************************)
EXTENDS Integers, Sequences, FiniteSets, TLC

VARIABLES
    dir,        \* the category directory: the .png files in glob order
    rng,        \* state of Python's global random generator
    idx,        \* the last call of make_mvtec_dataset: inputs, locals, outcome
    ref,        \* an earlier call of make_mvtec_dataset, kept for comparison
    ds,         \* the _MvtecDataset object: split, task, samples
    item,       \* the last call of _MvtecDataset.__getitem__
    config,     \* the configuration object handed to get_callbacks
    cb,         \* the last call of get_callbacks: outcome and callback list
    fs,         \* under root: does root/category exist, is the archive on disk
    dl          \* the constructions with download=True of the last caller

vars == <<dir, rng, idx, ref, ds, item, config, cb, fs, dl>>

----------------------------------------------------------------------------
(* Bounds of the model *)

\* Most .png files in the category directory.
MaxFiles == 3

\* Number of states of the abstract random generator.
RngMod == 3

\* Seeds a caller passes.
Seeds == {0, 1}

\* split_ratio values a caller passes, as <<numerator, denominator>>;
\* <<1, 10>> is the default 0.1.  For these int(n * split_ratio) in floating
\* point equals the exact quotient for every n the model reaches.
Ratios == {<<1, 10>>, <<1, 2>>, <<1, 1>>}

----------------------------------------------------------------------------
(* The directory layout: root/category/<split>/<label>/<file>.png *)

PATH == "MVTec/bottle"

FileKinds ==
    { [split |-> "train", label |-> "good"],
      [split |-> "train", label |-> "broken"],
      [split |-> "test", label |-> "good"],
      [split |-> "test", label |-> "broken"],
      [split |-> "ground_truth", label |-> "broken"] }

Dirs == UNION { [1..n -> FileKinds] : n \in 0..MaxFiles }

Range(s) == { s[i] : i \in DOMAIN s }

Count(s, P(_)) == Cardinality({ i \in DOMAIN s : P(s[i]) })

IsNormalTrain(r) == r.split = "train" /\ r.label = "good"

IsNormalTest(r) == r.split = "test" /\ r.label = "good"

----------------------------------------------------------------------------
(* Python's random module, abstracted: a generator with RngMod states.     *)

\* random.seed(seed)
RandomSeed(seed) == seed % RngMod

\* randbelow(n): the value drawn and the generator's next state
RandBelow(state, n) == [value |-> state % n, state |-> (state + 1) % RngMod]

\* random.sample(population, k), for 0 <= k <= len(population): the pool
\* algorithm, result[i] = pool[j]; pool[j] = pool[n - i - 1]
RECURSIVE SampleLoop(_, _, _, _, _)
SampleLoop(pool, n, k, i, state) ==
    IF i = k THEN [result |-> << >>, state |-> state]
    ELSE LET d == RandBelow(state, n - i)
             j == d.value + 1
             pool2 == [pool EXCEPT ![j] = pool[n - i]]
             rest == SampleLoop(pool2, n, k, i + 1, d.state)
         IN [result |-> <<pool[j]>> \o rest.result, state |-> rest.state]

RandomSample(population, k, state) ==
    SampleLoop(population, Len(population), k, 0, state)

----------------------------------------------------------------------------
(* split_normal_images_in_train_set                                        *)

\* samples.index[(samples.split == "train") & (samples.label == "good")]
NormalTrainIndices(samples) ==
    LET sel == SelectSeq(samples, IsNormalTrain)
    IN [i \in DOMAIN sel |-> sel[i].id]

\* Variant: the count rounded up instead of truncated.
NumNormalValidImagesCeil(n, ratio) == (n * ratio[1] + ratio[2] - 1) \div ratio[2]

\* int(num_normal_train_images * split_ratio)
NumNormalValidImages(n, ratio) == (n * ratio[1]) \div ratio[2]

\* Variant: no random.seed(seed), the sampling goes on from the caller's state.
UnseededState(seed, state) == state

\* The generator state the sampling starts from: random.seed(seed) discards
\* the state the caller left.
SeededState(seed, state) == RandomSeed(seed)

\* samples.loc[indices_to_split_from_train_set, "split"] = "test"
AssignToTest(samples, drawn) ==
    [samples |-> [i \in DOMAIN samples |->
                    IF \E j \in DOMAIN drawn.result : drawn.result[j] = samples[i].id
                    THEN [samples[i] EXCEPT !.split = "test"]
                    ELSE samples[i]],
     moved |-> Range(drawn.result),
     state |-> drawn.state]

SampleNormalTrain(indices, ratio, seed, state) ==
    RandomSample(indices, NumNormalValidImages(Len(indices), ratio),
                 SeededState(seed, state))

\* Returns the samples with the drawn rows reassigned, the drawn index
\* labels and the generator's state on return.
SplitNormalImagesInTrainSet(samples, ratio, seed, state) ==
    AssignToTest(samples,
                 SampleNormalTrain(NormalTrainIndices(samples), ratio, seed, state))

----------------------------------------------------------------------------
(* make_mvtec_dataset                                                      *)

\* One tuple per globbed file: (str(path),) + filename.parts[-3:]
SamplesList(d) ==
    [i \in DOMAIN d |->
        [id |-> i - 1, path |-> PATH, split |-> d[i].split,
         label |-> d[i].label, image_path |-> <<ToString(i), ".png">>]]

IsNotGroundTruth(r) == r.split # "ground_truth"

\* image_path.str.rstrip("png").str.rstrip(".")
Stem(filename) == SubSeq(filename, 1, Len(filename) - 1)

MaskPath(r) == <<r.path, "/ground_truth/", r.label, "/">> \o Stem(r.image_path) \o <<"_mask.png">>

ImagePath(r) == <<r.path, "/", r.split, "/", r.label, "/">> \o r.image_path

\* The mask_path and image_path columns, computed from the scanned split
WithPaths(samples) ==
    [i \in DOMAIN samples |->
        [id |-> samples[i].id, path |-> samples[i].path,
         split |-> samples[i].split, label |-> samples[i].label,
         image_path |-> ImagePath(samples[i]),
         mask_path |-> MaskPath(samples[i])]]

\* sum((samples.split == "test") & (samples.label == "good")) == 0
NeedsSplit(samples) == Count(samples, IsNormalTest) = 0

\* Variant: the mask cleared for every normal row, whatever its split.
ClearAllNormalMasks(samples) ==
    [i \in DOMAIN samples |->
        IF samples[i].label = "good"
        THEN [samples[i] EXCEPT !.mask_path = << >>]
        ELSE samples[i]]

\* samples.loc[(samples.split == "test") & (samples.label == "good"), "mask_path"] = ""
ClearNormalTestMasks(samples) ==
    [i \in DOMAIN samples |->
        IF IsNormalTest(samples[i])
        THEN [samples[i] EXCEPT !.mask_path = << >>]
        ELSE samples[i]]

\* Variant: normal taken to mean "has no mask".
LabelIndexFromMask(r) == IF r.mask_path = << >> THEN 0 ELSE 1

\* samples.loc[(samples.label == "good"), "label_index"] = 0, and 1 for the rest
LabelIndex(r) == IF r.label = "good" THEN 0 ELSE 1

WithLabelIndex(samples) ==
    [i \in DOMAIN samples |->
        [id |-> samples[i].id, path |-> samples[i].path,
         split |-> samples[i].split, label |-> samples[i].label,
         image_path |-> samples[i].image_path,
         mask_path |-> samples[i].mask_path,
         label_index |-> LabelIndex(samples[i])]]

\* samples[samples.split == split].reset_index(drop=True)
SelectSplit(samples, split) ==
    LET sel == SelectSeq(samples, LAMBDA r : r.split = split)
    IN [i \in DOMAIN sel |-> [sel[i] EXCEPT !.id = i - 1]]

\* Setting a new column to a scalar through .loc on a frame with no rows is
\* refused by some pandas releases and accepted by others.  The choice shows
\* only when the scan holds nothing but ground_truth files.
EmptyFrameOutcomes(d) ==
    IF Len(d) > 0 /\ \A i \in DOMAIN d : d[i].split = "ground_truth"
    THEN {"ok", "ValueError"}
    ELSE {"ok"}

NoTable == << >>

\* The rows after the optional reassignment, which runs only when the scan
\* has no normal test row
Reassigned(raw, ratio, seed, state) ==
    IF NeedsSplit(raw)
    THEN SplitNormalImagesInTrainSet(raw, ratio, seed, state)
    ELSE [samples |-> raw, moved |-> {}, state |-> state]

\* What a call leaves: its inputs, what the scan held, what was reassigned,
\* the table before the final selection (full) and the returned one (ret).
CallRecord(split, ratio, seed, scanned, raw, out, reassigned, full) ==
    [split |-> split, ratio |-> ratio, seed |-> seed, scanned |-> scanned,
     raw_normal_train |-> Count(raw, IsNormalTrain),
     raw_normal_test |-> Count(raw, IsNormalTest),
     split_called |-> NeedsSplit(raw),
     moved |-> IF out = "ok" THEN reassigned.moved ELSE {},
     full |-> IF out = "ok" THEN full ELSE NoTable,
     ret |-> IF out = "ok" THEN SelectSplit(full, split) ELSE NoTable,
     state |-> reassigned.state,
     out |-> out]

\* From the reassignment on: the mask and label_index columns, the selection
AfterReassignment(split, ratio, seed, scanned, raw, reassigned, emptyFrame) ==
    IF Len(raw) = 0 /\ emptyFrame = "ValueError"
    THEN CallRecord(split, ratio, seed, scanned, raw, "ValueError", reassigned, NoTable)
    ELSE CallRecord(split, ratio, seed, scanned, raw, "ok", reassigned,
                    WithLabelIndex(ClearNormalTestMasks(reassigned.samples)))

\* From the scan's rows on: the ground_truth rows dropped, the path columns
AfterScan(split, ratio, seed, state, scanned, raw, emptyFrame) ==
    AfterReassignment(split, ratio, seed, scanned, raw,
                      Reassigned(raw, ratio, seed, state), emptyFrame)

\* Variant: the "Found 0 images" test made after the ground_truth rows are
\* dropped.
MakeMvtecDatasetLateCheck(d, split, ratio, seed, state, emptyFrame) ==
    IF Len(SelectSeq(SamplesList(d), IsNotGroundTruth)) = 0
    THEN CallRecord(split, ratio, seed, Len(d), NoTable, "RuntimeError",
                    [samples |-> NoTable, moved |-> {}, state |-> state], NoTable)
    ELSE AfterScan(split, ratio, seed, state, Len(d),
                   WithPaths(SelectSeq(SamplesList(d), IsNotGroundTruth)),
                   emptyFrame)

\* The whole function.  emptyFrame is what the installed pandas does at the
\* label_index assignment when the frame has no rows.
MakeMvtecDataset(d, split, ratio, seed, state, emptyFrame) ==
    IF Len(d) = 0
    THEN CallRecord(split, ratio, seed, 0, NoTable, "RuntimeError",
                    [samples |-> NoTable, moved |-> {}, state |-> state], NoTable)
    ELSE AfterScan(split, ratio, seed, state, Len(d),
                   WithPaths(SelectSeq(SamplesList(d), IsNotGroundTruth)),
                   emptyFrame)

----------------------------------------------------------------------------
(* State of the index component                                            *)

\* No call of make_mvtec_dataset has been made yet.
NoCall ==
    [split |-> "none", ratio |-> <<0, 1>>, seed |-> 0, scanned |-> 0,
     raw_normal_train |-> 0, raw_normal_test |-> 0,
     split_called |-> FALSE, moved |-> {},
     full |-> NoTable, ret |-> NoTable, out |-> "none"]

NoRef == [valid |-> FALSE, ratio |-> <<0, 1>>, seed |-> 0, moved |-> {}]

\* A caller runs make_mvtec_dataset on the directory.
CallMakeMvtecDataset ==
    \E split \in {"train", "test"}, ratio \in Ratios, seed \in Seeds,
       emptyFrame \in EmptyFrameOutcomes(dir) :
        \E r \in {MakeMvtecDataset(dir, split, ratio, seed, rng, emptyFrame)} :
           /\ idx' = [f \in DOMAIN NoCall |-> r[f]]
           /\ rng' = r.state
           /\ UNCHANGED <<dir, ref, ds, item, config, cb, fs, dl>>

\* The caller keeps what the last reassignment selected.
KeepResult ==
    /\ idx.out = "ok"
    /\ idx.split_called
    /\ ref' = [valid |-> TRUE, ratio |-> idx.ratio, seed |-> idx.seed,
               moved |-> idx.moved]
    /\ UNCHANGED <<dir, rng, idx, ds, item, config, cb, fs, dl>>

\* Some other part of the program draws a random number.
DrawRandom ==
    /\ rng' = RandBelow(rng, 2).state
    /\ UNCHANGED <<dir, idx, ref, ds, item, config, cb, fs, dl>>

NextIndex == CallMakeMvtecDataset \/ KeepResult \/ DrawRandom

----------------------------------------------------------------------------
(* _MvtecDataset                                                           *)

Tasks == {"classification", "segmentation"}

NoDataset == [out |-> "none", split |-> "none", task |-> "none", samples |-> NoTable]

NoItem ==
    [out |-> "none", index |-> 0, split |-> "none", task |-> "none",
     keys |-> {}, ops |-> << >>, label |-> 0, mask_path |-> << >>]

\* __init__ with download=False: split from is_train, then the index with the
\* default split_ratio 0.1 and seed 0.  A failing make_mvtec_dataset leaves
\* no object.
MvtecDatasetInit(task, is_train, r) ==
    IF r.out = "ok"
    THEN [out |-> "ok", split |-> IF is_train THEN "train" ELSE "test",
          task |-> task, samples |-> r.ret]
    ELSE [NoDataset EXCEPT !.out = r.out]

\* The keys of the item built for a training split or a classification task.
ImageOnlyKeys(self) ==
    IF self.split = "train" \/ self.task = "classification" THEN {"image"} ELSE {}

\* Variant: nothing added for a classification task.
TestKeysSegmentationOnly(self) ==
    IF self.split = "test" /\ self.task = "segmentation"
    THEN {"image_path", "label", "mask_path", "image", "mask"}
    ELSE {}

\* The keys added for a test split.
TestKeys(self) ==
    IF self.split = "test"
    THEN {"image_path", "label"} \cup
         (IF self.task = "segmentation" THEN {"mask_path", "image", "mask"} ELSE {})
    ELSE {}

\* The loads and transforms __getitem__ runs, in order.
GetItemOps(self, label_index) ==
    <<"read_image">>
    \o (IF self.split = "train" \/ self.task = "classification"
        THEN <<"pre_process(image)">> ELSE << >>)
    \o (IF self.split = "test" /\ self.task = "segmentation"
        THEN <<IF label_index = 0 THEN "np.zeros" ELSE "cv2.imread(mask)",
               "pre_process(image, mask)">>
        ELSE << >>)

\* __getitem__(index); an index that is no label of samples is a KeyError.
GetItem(self, index) ==
    IF index + 1 \notin DOMAIN self.samples
    THEN [NoItem EXCEPT !.out = "KeyError", !.index = index,
                        !.split = self.split, !.task = self.task]
    ELSE [out |-> "ok", index |-> index, split |-> self.split, task |-> self.task,
          keys |-> ImageOnlyKeys(self) \cup TestKeys(self),
          ops |-> GetItemOps(self, self.samples[index + 1].label_index),
          label |-> self.samples[index + 1].label_index,
          mask_path |-> IF self.split = "test" /\ self.task = "segmentation"
                        THEN self.samples[index + 1].mask_path ELSE << >>]

\* _MvtecDataset(root, category, pre_process, task, is_train)
Construct ==
    \E task \in Tasks, is_train \in BOOLEAN, emptyFrame \in EmptyFrameOutcomes(dir) :
        \E r \in {MakeMvtecDataset(dir, IF is_train THEN "train" ELSE "test",
                                    <<1, 10>>, 0, rng, emptyFrame)} :
           /\ ds' = MvtecDatasetInit(task, is_train, r)
           /\ idx' = [f \in DOMAIN NoCall |-> r[f]]
           /\ rng' = r.state
           /\ item' = NoItem
           /\ UNCHANGED <<dir, ref, config, cb, fs, dl>>

\* dataset.split = ...
SetSplit ==
    \E split \in {"train", "test"} :
        /\ ds.out = "ok"
        /\ ds' = [ds EXCEPT !.split = split]
        /\ UNCHANGED <<dir, rng, idx, ref, item, config, cb, fs, dl>>

\* dataset.task = ...
SetTask ==
    \E task \in Tasks :
        /\ ds.out = "ok"
        /\ ds' = [ds EXCEPT !.task = task]
        /\ UNCHANGED <<dir, rng, idx, ref, item, config, cb, fs, dl>>

\* dataset[index]
CallGetItem ==
    \E index \in 0..MaxFiles :
        /\ ds.out = "ok"
        /\ item' = GetItem(ds, index)
        /\ UNCHANGED <<dir, rng, idx, ref, ds, config, cb, fs, dl>>

NextDataset == Construct \/ SetSplit \/ SetTask \/ CallGetItem

----------------------------------------------------------------------------
(* _MvtecDataset._download and the constructor with download=True          *)

\* The state of root/category and of root/mvtec_anomaly_detection.tar.xz
\* when the category directory is in place and no archive lies around.
CategoryInPlace == [is_dir |-> TRUE, archive |-> FALSE]

NoDownloads == << >>

\* What an extraction, finished or interrupted, leaves at root/category:
\* nothing when the archive does not hold the category, else its .png files.
NoContent == [present |-> FALSE, files |-> << >>]

Contents == {NoContent} \cup { [present |-> TRUE, files |-> d] : d \in Dirs }

\* The calls of _download that can raise, in the order of the code.
DownloadSteps == <<"mkdir", "fetch", "extract", "delete">>

\* The call that raises in one run of _download, "none" when none does.
\* Nothing is called when the directory exists.
FailurePoints(fsys) ==
    IF fsys.is_dir THEN {"none"} ELSE {"none"} \cup Range(DownloadSteps)

\* What the extraction writes; it is not reached after an earlier failure.
ExtractedContents(fsys, fail) ==
    IF fsys.is_dir \/ fail \in {"mkdir", "fetch"} THEN {NoContent} ELSE Contents

\* Whether a failed urlretrieve leaves a file at self.filename.
PartialArchives(fsys, fail) ==
    IF ~fsys.is_dir /\ fail = "fetch" THEN BOOLEAN ELSE {FALSE}

\* One call inside _download: skipped once an exception is on its way.
DownloadCall(st, step, fail, error, fsys, d) ==
    IF st.out # "ok" THEN st
    ELSE IF fail = step
         THEN [out |-> error, steps |-> Append(st.steps, step), fs |-> fsys, dir |-> d]
         ELSE [st EXCEPT !.steps = Append(@, step)]

\* self.root.mkdir(parents=True, exist_ok=True)
Mkdir(st, fail) ==
    DownloadCall(st, "mkdir", fail, "OSError", st.fs, st.dir)

\* urlretrieve(url, filename=self.filename): the archive is on disk after it
UrlRetrieve(st, fail, partial) ==
    IF st.out = "ok" /\ fail # "fetch"
    THEN [st EXCEPT !.steps = Append(@, "fetch"), !.fs.archive = TRUE]
    ELSE DownloadCall(st, "fetch", fail, "URLError",
                      [st.fs EXCEPT !.archive = partial], st.dir)

\* _extract: tarfile.open(self.filename).extractall(self.root).  An
\* interrupted extraction leaves what it had written.
Extract(st, fail, content) ==
    IF st.out = "ok" /\ fail # "extract"
    THEN [st EXCEPT !.steps = Append(@, "extract"),
                    !.fs.is_dir = content.present, !.dir = content.files]
    ELSE DownloadCall(st, "extract", fail, "TarError",
                      [st.fs EXCEPT !.is_dir = content.present], content.files)

\* _clean: self.filename.unlink()
Clean(st, fail) ==
    IF st.out = "ok" /\ fail # "delete"
    THEN [st EXCEPT !.steps = Append(@, "delete"), !.fs.archive = FALSE]
    ELSE DownloadCall(st, "delete", fail, "OSError", st.fs, st.dir)

\* The else branch of _download
DownloadArchive(fsys, d, fail, content, partial) ==
    Clean(Extract(UrlRetrieve(Mkdir([out |-> "ok", steps |-> << >>,
                                     fs |-> fsys, dir |-> d], fail),
                              fail, partial),
                  fail, content),
          fail)

\* Variant: the archive is fetched whether or not the directory exists.
DownloadAlways(fsys, d, fail, content, partial) ==
    DownloadArchive(fsys, d, fail, content, partial)

\* _download
Download(fsys, d, fail, content, partial) ==
    IF fsys.is_dir
    THEN [out |-> "ok", steps |-> <<"warning">>, fs |-> fsys, dir |-> d]
    ELSE DownloadArchive(fsys, d, fail, content, partial)

\* __init__ with download=True when _download raised: no index, no object.
Aborted(fsys, fail, d1, state) ==
    [log |-> [existed |-> fsys.is_dir, failed |-> fail, steps |-> d1.steps,
              out |-> d1.out],
     fs |-> d1.fs, dir |-> d1.dir, state |-> state, indexed |-> FALSE,
     idx |-> NoCall]

\* __init__ with download=True when _download returned: r is what
\* make_mvtec_dataset did on the directory _download left.
Indexed(fsys, fail, d1, r) ==
    [log |-> [existed |-> fsys.is_dir, failed |-> fail,
              steps |-> Append(d1.steps, "index"), out |-> r.out],
     fs |-> d1.fs, dir |-> d1.dir, state |-> r.state, indexed |-> TRUE,
     idx |-> [f \in DOMAIN NoCall |-> r[f]]]

\* The ways __init__ can go on after _download ended as d1
AfterDownload(fsys, fail, d1, state, is_train) ==
    IF d1.out # "ok"
    THEN {Aborted(fsys, fail, d1, state)}
    ELSE { Indexed(fsys, fail, d1,
                   MakeMvtecDataset(d1.dir, IF is_train THEN "train" ELSE "test",
                                    <<1, 10>>, 0, state, emptyFrame)) :
             emptyFrame \in EmptyFrameOutcomes(d1.dir) }

\* Every way _MvtecDataset(root, category, ..., download=True) can run on
\* the files fsys, d with the random generator in state, up to the
\* assignment of self.samples
Constructions(fsys, d, state, is_train) ==
    UNION { UNION { UNION {
        AfterDownload(fsys, fail, Download(fsys, d, fail, content, partial),
                      state, is_train) :
            partial \in PartialArchives(fsys, fail) } :
            content \in ExtractedContents(fsys, fail) } :
            fail \in FailurePoints(fsys) }

\* _MvtecDataset(root, category, pre_process, task, is_train, download=True)
ConstructDownload ==
    \E is_train \in BOOLEAN :
        \E c \in Constructions(fs, dir, rng, is_train) :
           /\ dl' = <<c.log>>
           /\ fs' = c.fs
           /\ dir' = c.dir
           /\ rng' = c.state
           /\ \E task \in Tasks :
                 ds' = IF c.indexed
                       THEN MvtecDatasetInit(task, is_train, c.idx)
                       ELSE [NoDataset EXCEPT !.out = c.log.out]
           /\ idx' = IF c.indexed THEN c.idx ELSE idx
           /\ item' = NoItem
           /\ UNCHANGED <<ref, config, cb>>

\* Mvtec.prepare_data only: the second construction raised or returned.
PrepareDataTest(c1) ==
    \E c2 \in Constructions(c1.fs, c1.dir, c1.state, FALSE) :
       /\ dl' = <<c1.log, c2.log>>
       /\ fs' = c2.fs
       /\ dir' = c2.dir
       /\ rng' = c2.state
       /\ idx' = IF c2.indexed THEN c2.idx ELSE c1.idx

\* Mvtec.prepare_data: the train object, then the test object, both with
\* download=True and both dropped; an exception in the first ends the call.
PrepareData ==
    /\ \E c1 \in Constructions(fs, dir, rng, TRUE) :
          IF c1.log.out = "ok"
          THEN PrepareDataTest(c1)
          ELSE /\ dl' = <<c1.log>>
               /\ fs' = c1.fs
               /\ dir' = c1.dir
               /\ rng' = c1.state
               /\ idx' = IF c1.indexed THEN c1.idx ELSE idx
    /\ UNCHANGED <<ref, ds, item, config, cb>>

NextDownload == ConstructDownload \/ PrepareData

----------------------------------------------------------------------------
(* The configuration object read by get_callbacks                          *)

\* normalization_method when the key is not in config.model
Absent == "<absent>"

ModelNames == {"padim", "stfpm", "resnet"}

NormalizationMethods == {Absent, "none", "cdf", "min_max", "CDF", "bogus"}

\* An optional section with an apply flag: the section missing, apply false,
\* apply true.
ApplyFlags == {"absent", "false", "true"}

\* The deprecated log_images_to option: the key missing, or its list.
LogImagesTo ==
    { [present |-> FALSE, values |-> << >>] } \cup
    { [present |-> TRUE, values |-> v] :
        v \in { << >>, <<"local">>, <<"wandb">>, <<"local", "wandb">> } }

AllVisualizationKeys ==
    {"log_images", "save_images", "show_images", "mode", "image_save_path"}

NoVisualization ==
    [present |-> FALSE, keys |-> {}, log_images |-> FALSE,
     save_images |-> FALSE, show_images |-> FALSE]

Visualizations ==
    { NoVisualization } \cup
    { [present |-> TRUE, keys |-> AllVisualizationKeys, log_images |-> l,
       save_images |-> s, show_images |-> w] : l, s, w \in BOOLEAN }

Optimizations ==
    { [present |-> FALSE, nncf |-> "absent", openvino |-> "absent"] } \cup
    { [present |-> TRUE, nncf |-> n, openvino |-> o] :
        n \in ApplyFlags, o \in {"absent", "true"} }

Configs ==
    { [model |-> [name |-> n, normalization_method |-> m, weight_file |-> w],
       optimization |-> o,
       logging |-> [log_graph |-> g, log_images_to |-> ll],
       project |-> [log_images_to |-> pl],
       visualization |-> v] :
        n \in ModelNames, m \in NormalizationMethods, w \in BOOLEAN,
        o \in Optimizations, g \in BOOLEAN,
        ll \in { x \in LogImagesTo : Len(x.values) <= 1 /\ x.values # <<"local">> },
        pl \in LogImagesTo, v \in Visualizations }

\* What reading a key that is missing gives: the configuration library either
\* raises or returns None, depending on its release.
MissingKeyPolicies == {"raise", "None"}

----------------------------------------------------------------------------
(* get_callbacks: each step takes and returns the running state            *)
(* [out, callbacks, config]; out = "ok" while no exception has been raised *)

Raise(st, error, message) == [st EXCEPT !.out = error, !.message = message]

\* Reading a missing key and using the result: the library raises, or it
\* returns None and the use of None fails with useError.
MissingKey(st, policy, key, useError) ==
    IF policy = "raise"
    THEN Raise(st, "ConfigAttributeError", <<"Missing key ", key>>)
    ELSE Raise(st, useError, <<"NoneType">>)

Append1(st, callback) == [st EXCEPT !.callbacks = Append(@, callback)]

\* "nncf" in config.optimization and config.optimization.nncf.apply
NncfApplies(cfg) == cfg.optimization.nncf = "true"

\* The checkpoint, timer and metrics configuration callbacks; the early
\* stopping and metrics keys set their arguments, not which callbacks are
\* listed.
BaseCallbacks == <<"ModelCheckpoint", "TimerCallback", "MetricsConfigurationCallback">>

LoadModelStep(st) ==
    IF st.config.model.weight_file THEN Append1(st, "LoadModelCallback") ELSE st

\* Variant: the CDF callback appended without the NNCF test.
CdfStepNoNncfTest(st, policy) == Append1(st, "CdfNormalizationCallback")

\* The CDF branch for a supported model: the NNCF test reads
\* config.optimization without a test that the section is there.
CdfStep(st, policy) ==
    IF ~st.config.optimization.present
    THEN MissingKey(st, policy, "optimization", "TypeError")
    ELSE IF NncfApplies(st.config)
    THEN Raise(st, "NotImplementedError",
               <<"CDF Score Normalization is currently not compatible with NNCF.">>)
    ELSE Append1(st, "CdfNormalizationCallback")

\* Variant: stfpm left out of the supported models.
CdfSupportedModelsPadimOnly == {"padim"}

\* config.model.name in ["padim", "stfpm"]
CdfSupportedModels == {"padim", "stfpm"}

\* Variant: any other method string taken as min_max.
UnrecognizedMethodAsMinMax(st, method) == Append1(st, "MinMaxNormalizationCallback")

\* raise ValueError(f"Normalization method not recognized: {...}")
UnrecognizedMethod(st, method) ==
    Raise(st, "ValueError", <<"Normalization method not recognized: ", method>>)

NormalizationStep(st, policy) ==
    LET method == st.config.model.normalization_method
    IN IF method = Absent \/ method = "none" THEN st
       ELSE IF method = "cdf"
       THEN IF st.config.model.name \in CdfSupportedModels
            THEN CdfStep(st, policy)
            ELSE Raise(st, "NotImplementedError",
                       <<"Score Normalization is currently supported for PADIM and STFPM only.">>)
       ELSE IF method = "min_max"
       THEN Append1(st, "MinMaxNormalizationCallback")
       ELSE UnrecognizedMethod(st, method)

----------------------------------------------------------------------------
(* add_visualizer_callback                                                 *)

IsDeprecatedOptionSet(cfg) ==
    \/ cfg.project.log_images_to.present /\ Len(cfg.project.log_images_to.values) > 0
    \/ cfg.logging.log_images_to.present /\ Len(cfg.logging.log_images_to.values) > 0

\* dict(log_images=False, save_images=False, show_image=False, image_save_path=None)
DefaultVisualization ==
    [present |-> TRUE,
     keys |-> {"log_images", "save_images", "show_image", "image_save_path"},
     log_images |-> FALSE, save_images |-> FALSE, show_images |-> FALSE]

WithDefaultVisualization(st) ==
    IF st.config.visualization.present THEN st
    ELSE [st EXCEPT !.config.visualization = DefaultVisualization]

\* config.visualization[key] = True
SetVisualization(vis, key) ==
    LET v == [vis EXCEPT !.keys = @ \cup {key}]
    IN IF key = "save_images" THEN [v EXCEPT !.save_images = TRUE]
       ELSE [v EXCEPT !.log_images = TRUE]

\* The two tests on config.project.log_images_to
TranslateLogImagesTo(st) ==
    LET values == st.config.project.log_images_to.values
        s1 == IF "local" \in Range(values)
              THEN [st EXCEPT !.config.visualization = SetVisualization(@, "save_images")]
              ELSE st
    IN IF "local" \notin Range(values) \/ Len(values) > 1
       THEN [s1 EXCEPT !.config.visualization = SetVisualization(@, "log_images")]
       ELSE s1

\* The deprecated option's branch: the warning, the default section, then the
\* translation, which reads the project's option whichever section set it.
ReadProjectOption(st, policy) ==
    IF ~st.config.project.log_images_to.present
    THEN MissingKey(st, policy, "log_images_to", "TypeError")
    ELSE TranslateLogImagesTo(st)

MigrateStep(st, policy) ==
    IF ~IsDeprecatedOptionSet(st.config) THEN st
    ELSE ReadProjectOption(WithDefaultVisualization(st), policy)

\* A flag of config.visualization as the condition reads it: a missing key
\* is None, which is false.
VisFlag(vis, key) ==
    /\ key \in vis.keys
    /\ CASE key = "log_images" -> vis.log_images
          [] key = "save_images" -> vis.save_images
          [] OTHER -> vis.show_images

\* The keys among `wanted`, in the order they are read, that are missing.
FirstMissing(vis, wanted) ==
    SelectSeq(wanted, LAMBDA k : k \notin vis.keys)

\* log_images or save_images or show_images, short-circuit: the keys read
ConditionReads(vis) ==
    IF VisFlag(vis, "log_images") THEN <<"log_images">>
    ELSE IF VisFlag(vis, "save_images") THEN <<"log_images", "save_images">>
    ELSE <<"log_images", "save_images", "show_images">>

WantsVisualizer(vis) ==
    VisFlag(vis, "log_images") \/ VisFlag(vis, "save_images") \/ VisFlag(vis, "show_images")

\* The VisualizerCallback(...) arguments read from the configuration, in order
VisualizerReads(cfg) ==
    <<"image_save_path", "mode">>
    \o (IF cfg.model.normalization_method = Absent
        THEN <<"normalization_method">> ELSE << >>)
    \o <<"show_images", "log_images", "save_images">>

AppendVisualizerStep(st, policy) ==
    LET vis == st.config.visualization
        missing_cond == FirstMissing(vis, ConditionReads(vis))
        missing_args == FirstMissing(vis, VisualizerReads(st.config))
    IN IF ~vis.present
       THEN MissingKey(st, policy, "visualization", "AttributeError")
       ELSE IF policy = "raise" /\ missing_cond # << >>
       THEN MissingKey(st, policy, Head(missing_cond), "")
       ELSE IF ~WantsVisualizer(vis) THEN st
       ELSE IF policy = "raise" /\ missing_args # << >>
       THEN MissingKey(st, policy, Head(missing_args), "")
       ELSE Append1(st, "VisualizerCallback")

AfterMigration(st, policy) ==
    IF st.out # "ok" THEN st ELSE AppendVisualizerStep(st, policy)

AddVisualizerCallback(st, policy) == AfterMigration(MigrateStep(st, policy), policy)

----------------------------------------------------------------------------
(* get_callbacks                                                           *)

\* The NNCF and OpenVINO callbacks, when the optimization section asks
NncfStep(st) ==
    IF NncfApplies(st.config) THEN Append1(st, "NNCFCallback") ELSE st

OpenVinoStep(st) ==
    IF st.config.optimization.openvino = "true"
    THEN Append1(st, "OpenVINOCallback") ELSE st

\* Variant: the OpenVINO callback appended before the NNCF callback.
OptimizationStepOpenVinoFirst(st) ==
    IF ~st.config.optimization.present THEN st ELSE NncfStep(OpenVinoStep(st))

OptimizationStep(st) ==
    IF ~st.config.optimization.present THEN st ELSE OpenVinoStep(NncfStep(st))

\* config.logging.log_graph not in [None, False]
GraphLoggerStep(st) ==
    IF st.config.logging.log_graph THEN Append1(st, "GraphLogger") ELSE st

\* An exception ends the function: the later steps run only without one.
AfterNormalization(st, policy) ==
    IF st.out = "ok" THEN AddVisualizerCallback(st, policy) ELSE st

AfterVisualizer(st) ==
    IF st.out = "ok" THEN GraphLoggerStep(OptimizationStep(st)) ELSE st

\* The steps up to the call of add_visualizer_callback
BeforeVisualizer(cfg, policy) ==
    NormalizationStep(
        LoadModelStep([out |-> "ok", message |-> << >>,
                       callbacks |-> BaseCallbacks, config |-> cfg]),
        policy)

\* The whole function: the state when it returns or raises.  An exception
\* leaves the changes already made to the configuration object.
GetCallbacks(cfg, policy) ==
    AfterVisualizer(AfterNormalization(BeforeVisualizer(cfg, policy), policy))

\* How the add_visualizer_callback call made by get_callbacks ends: "none"
\* when an exception before it keeps it from being called.
VisualizerOutcome(st, policy) ==
    IF st.out = "ok" THEN AddVisualizerCallback(st, policy).out ELSE "none"

DefaultConfig ==
    [model |-> [name |-> "padim", normalization_method |-> "min_max",
                weight_file |-> FALSE],
     optimization |-> [present |-> TRUE, nncf |-> "false", openvino |-> "absent"],
     logging |-> [log_graph |-> FALSE,
                  log_images_to |-> [present |-> FALSE, values |-> << >>]],
     project |-> [log_images_to |-> [present |-> FALSE, values |-> << >>]],
     visualization |-> [present |-> TRUE, keys |-> AllVisualizationKeys,
                        log_images |-> FALSE, save_images |-> FALSE,
                        show_images |-> FALSE]]

NoCallbacks ==
    [out |-> "none", message |-> << >>, callbacks |-> << >>, policy |-> "none",
     given |-> DefaultConfig, visualizer |-> "none"]

\* get_callbacks(config); a call that raises returns no list.
CallGetCallbacks ==
    \E policy \in MissingKeyPolicies :
        \E r \in {GetCallbacks(config, policy)} :
           /\ cb' = [out |-> r.out, message |-> r.message,
                     callbacks |-> IF r.out = "ok" THEN r.callbacks ELSE << >>,
                     policy |-> policy, given |-> config,
                     visualizer |->
                        VisualizerOutcome(BeforeVisualizer(config, policy), policy)]
           /\ config' = r.config
           /\ UNCHANGED <<dir, rng, idx, ref, ds, item, fs, dl>>

NextCallbacks == CallGetCallbacks

----------------------------------------------------------------------------
(* Specifications                                                          *)

Init ==
    /\ fs \in [is_dir : BOOLEAN, archive : BOOLEAN]
    /\ dir \in (IF fs.is_dir THEN Dirs ELSE {<< >>})
    /\ rng \in 0..(RngMod - 1)
    /\ idx = NoCall
    /\ ref = NoRef
    /\ ds = NoDataset
    /\ item = NoItem
    /\ config \in Configs
    /\ cb = [NoCallbacks EXCEPT !.given = config]
    /\ dl = NoDownloads

Next == NextIndex \/ NextDataset \/ NextCallbacks \/ NextDownload

Spec == Init /\ [][Next]_vars

\* The dataset code alone: the configuration stays at its default.
InitData ==
    /\ dir \in Dirs
    /\ rng \in 0..(RngMod - 1)
    /\ idx = NoCall
    /\ ref = NoRef
    /\ ds = NoDataset
    /\ item = NoItem
    /\ config = DefaultConfig
    /\ cb = NoCallbacks
    /\ fs = CategoryInPlace
    /\ dl = NoDownloads

SpecIndex == InitData /\ [][NextIndex]_vars

SpecDataset == InitData /\ [][NextDataset]_vars

\* The callback assembly alone: the directory stays empty.
InitCallbacks ==
    /\ dir = << >>
    /\ rng = 0
    /\ idx = NoCall
    /\ ref = NoRef
    /\ ds = NoDataset
    /\ item = NoItem
    /\ config \in Configs
    /\ cb = [NoCallbacks EXCEPT !.given = config]
    /\ fs = CategoryInPlace
    /\ dl = NoDownloads

SpecCallbacks == InitCallbacks /\ [][NextCallbacks]_vars

\* The download alone, in a fresh interpreter: root/category may be missing,
\* and an archive may be left over from an earlier run.
InitDownload ==
    /\ fs \in [is_dir : BOOLEAN, archive : BOOLEAN]
    /\ dir \in (IF fs.is_dir THEN Dirs ELSE {<< >>})
    /\ rng = 0
    /\ idx = NoCall
    /\ ref = NoRef
    /\ ds = NoDataset
    /\ item = NoItem
    /\ config = DefaultConfig
    /\ cb = NoCallbacks
    /\ dl = NoDownloads

SpecDownload == InitDownload /\ [][NextDownload]_vars

----------------------------------------------------------------------------
(* Properties of the index builder (checked under SpecIndex)               *)

Called == idx.out # "none"

Built == idx.out = "ok"

\* ceil(split_ratio * n)
CeilOfRatio(n, ratio) == (n * ratio[1] + ratio[2] - 1) \div ratio[2]

\* The .png files of the directory that lie under the given split
SourceImages(d, split) == Count(d, LAMBDA f : f.split = split)

\* C1: once make_mvtec_dataset has built the index, the test split holds at
\* least one row labelled "good".
C1_TestSplitHasNormalRow ==
    Built => \E i \in DOMAIN idx.full : IsNormalTest(idx.full[i])

C3_EmptySplitRaises ==
    Called =>
        IF SourceImages(dir, idx.split) = 0
        THEN idx.out = "RuntimeError"
        ELSE idx.out = "ok" /\ Len(idx.ret) > 0

\* C3 amended: the "Found 0 images" RuntimeError is raised exactly when the
\* scan finds no file at all; a call that returns gives the rows whose split,
\* after the reassignment, is the requested one, and that table may be empty;
\* the only other outcome is the ValueError of a frame without rows, for a
\* directory that holds ground_truth files only.
C3_RaisesOnlyOnEmptyScan ==
    Called =>
        /\ idx.out \in {"ok", "RuntimeError", "ValueError"}
        /\ idx.out = "RuntimeError" <=> Len(dir) = 0
        /\ idx.out = "ValueError" => SourceImages(dir, "ground_truth") = Len(dir)
        /\ Built => /\ Len(idx.ret) = Count(idx.full, LAMBDA r : r.split = idx.split)
                    /\ \A i \in DOMAIN idx.ret : idx.ret[i].split = idx.split

\* A directory with images whose requested split comes back empty.
C3_Witness ==
    /\ Built /\ Len(dir) > 0 /\ Len(idx.ret) = 0
    /\ SourceImages(dir, "ground_truth") = 0

\* C4: in every row of the index, mask_path is empty exactly for the normal
\* rows of the test split, reassigned rows included.
C4_MaskEmptyIffNormalTest ==
    Built =>
        /\ \A i \in DOMAIN idx.full :
              (idx.full[i].mask_path = << >>)
                 <=> (idx.full[i].split = "test" /\ idx.full[i].label_index = 0)
        /\ \A i \in DOMAIN idx.ret :
              (idx.ret[i].mask_path = << >>)
                 <=> (idx.ret[i].split = "test" /\ idx.ret[i].label_index = 0)

\* An index with a reassigned normal row, an anomalous test row and a
\* training row.
C4_Witness ==
    /\ Built /\ idx.moved # {}
    /\ \E i \in DOMAIN idx.full :
          idx.full[i].id \in idx.moved /\ idx.full[i].mask_path = << >>
    /\ \E i \in DOMAIN idx.full :
          idx.full[i].split = "test" /\ idx.full[i].label # "good"
             /\ idx.full[i].mask_path # << >>
    /\ \E i \in DOMAIN idx.full :
          idx.full[i].split = "train" /\ idx.full[i].mask_path # << >>

\* C5: in every returned row label_index is 0 exactly when label is "good",
\* and 1 otherwise.
C5_LabelIndexMatchesLabel ==
    Built =>
        \A i \in DOMAIN idx.ret :
            /\ idx.ret[i].label_index \in {0, 1}
            /\ idx.ret[i].label_index = 0 <=> idx.ret[i].label = "good"

\* A returned training table with a normal and an anomalous row.
C5_Witness ==
    /\ Built /\ idx.split = "train"
    /\ \E i \in DOMAIN idx.ret : idx.ret[i].label = "good" /\ idx.ret[i].label_index = 0
    /\ \E i \in DOMAIN idx.ret : idx.ret[i].label # "good" /\ idx.ret[i].label_index = 1

\* C6: a reassignment with the seed and split_ratio of an earlier one on the
\* same rows moves the same rows, whatever was drawn in between.
C6_SameSeedSameRows ==
    (ref.valid /\ Built /\ idx.split_called
        /\ idx.seed = ref.seed /\ idx.ratio = ref.ratio)
      => idx.moved = ref.moved

\* A repeated reassignment that had a choice: it moved some of the normal
\* training rows, not all.
C6_Witness ==
    /\ ref.valid /\ Built /\ idx.split_called
    /\ idx.seed = ref.seed /\ idx.ratio = ref.ratio
    /\ idx.moved # {} /\ Cardinality(idx.moved) < idx.raw_normal_train
    /\ idx.moved = ref.moved

----------------------------------------------------------------------------
(* Properties of get_callbacks (checked under SpecCallbacks)               *)

Assembled == cb.out # "none"

Has(callback) == \E i \in DOMAIN cb.callbacks : cb.callbacks[i] = callback

C8_UnknownMethodRaisesValueError ==
    (Assembled
        /\ cb.given.model.normalization_method
              \notin {Absent, "none", "cdf", "min_max"})
      => /\ cb.out = "ValueError"
         /\ cb.message[Len(cb.message)] = cb.given.model.normalization_method
         /\ cb.callbacks = << >>

\* An assembly refused for the method "CDF", with NNCF applied.
C8_Witness ==
    /\ cb.out = "ValueError"
    /\ cb.given.model.normalization_method = "CDF"
    /\ cb.given.optimization.nncf = "true"
    /\ cb.message = <<"Normalization method not recognized: ", "CDF">>

\* C9: CDF normalization for padim or stfpm with NNCF applied raises
\* NotImplementedError and returns no list; no returned list holds both the
\* CDF and the NNCF callback.
C9_CdfExcludesNncf ==
    /\ (Assembled /\ cb.given.model.normalization_method = "cdf"
          /\ cb.given.model.name \in {"padim", "stfpm"}
          /\ cb.given.optimization.present
          /\ cb.given.optimization.nncf = "true")
         => cb.out = "NotImplementedError" /\ cb.callbacks = << >>
    /\ ~(Has("CdfNormalizationCallback") /\ Has("NNCFCallback"))

\* A refused CDF assembly with NNCF applied.
C9_Witness ==
    /\ cb.out = "NotImplementedError"
    /\ cb.given.model.normalization_method = "cdf"
    /\ cb.given.model.name = "padim"
    /\ cb.given.optimization.nncf = "true"
    /\ cb.callbacks = << >>

\* The place of a conditional callback in the assembly order; the two score
\* normalization callbacks share a place.
HookRank(callback) ==
    CASE callback = "LoadModelCallback" -> 1
      [] callback = "CdfNormalizationCallback" -> 2
      [] callback = "MinMaxNormalizationCallback" -> 2
      [] callback = "VisualizerCallback" -> 3
      [] callback = "NNCFCallback" -> 4
      [] callback = "OpenVINOCallback" -> 5
      [] callback = "GraphLogger" -> 6
      [] OTHER -> 0

\* C11: a returned list starts with ModelCheckpoint, TimerCallback and
\* MetricsConfigurationCallback, and the conditional callbacks after them
\* come once each in the order weight loading, score normalization (CDF or
\* min-max, never both), visualization, NNCF, OpenVINO, graph logging.
C11_CallbackOrder ==
    cb.out = "ok" =>
        /\ Len(cb.callbacks) >= 3
        /\ SubSeq(cb.callbacks, 1, 3)
              = <<"ModelCheckpoint", "TimerCallback", "MetricsConfigurationCallback">>
        /\ \A i \in 4..Len(cb.callbacks) : HookRank(cb.callbacks[i]) >= 1
        /\ \A i, j \in 4..Len(cb.callbacks) :
              i < j => HookRank(cb.callbacks[i]) < HookRank(cb.callbacks[j])

\* A returned list with every conditional callback.
C11_Witness ==
    /\ cb.out = "ok"
    /\ cb.callbacks = <<"ModelCheckpoint", "TimerCallback",
                        "MetricsConfigurationCallback", "LoadModelCallback",
                        "MinMaxNormalizationCallback", "VisualizerCallback",
                        "NNCFCallback", "OpenVINOCallback", "GraphLogger">>

\* The values of the deprecated option, from whichever section sets it
DeprecatedValues(cfg) ==
    Range(cfg.project.log_images_to.values) \cup Range(cfg.logging.log_images_to.values)

\* C13: when add_visualizer_callback finds the deprecated log_images_to
\* option non-empty in the project or the logging section, it does not fail,
\* visualization.save_images is set when the option holds "local" and
\* visualization.log_images when it holds another value (a flag already true
\* stays true), and the visualizer callback is appended exactly when
\* log_images, save_images or show_images is then true.
C13_DeprecatedOptionTranslated ==
    (cb.visualizer # "none" /\ IsDeprecatedOptionSet(cb.given)) =>
        /\ cb.visualizer = "ok"
        /\ config.visualization.save_images
              <=> (cb.given.visualization.save_images
                     \/ "local" \in DeprecatedValues(cb.given))
        /\ config.visualization.log_images
              <=> (cb.given.visualization.log_images
                     \/ DeprecatedValues(cb.given) \ {"local"} # {})
        /\ Has("VisualizerCallback")
              <=> (config.visualization.log_images
                     \/ config.visualization.save_images
                     \/ config.visualization.show_images)

----------------------------------------------------------------------------
(* Properties of the download (checked under SpecDownload)                 *)

Last(s) == s[Len(s)]

IsPrefix(s, t) == Len(s) <= Len(t) /\ s = SubSeq(t, 1, Len(s))

Fetched(c) == "fetch" \in Range(c.steps)

\* C12: a construction with download enabled that finds the category
\* directory only warns and builds the index; one that does not find it
\* fetches, extracts and deletes the archive in that order before it builds
\* the index, and when one of these steps fails that step is the last thing
\* done and no index is built; across the constructions of one caller, the
\* second made only after the first returned, the archive is fetched at most
\* once.
C12_DownloadProtocol ==
    /\ \A i \in DOMAIN dl :
          /\ dl[i].existed => dl[i].steps = <<"warning", "index">>
          /\ (~dl[i].existed /\ dl[i].failed = "none") =>
                SelectSeq(dl[i].steps, LAMBDA step : step # "mkdir")
                    = <<"fetch", "extract", "delete", "index">>
          /\ (~dl[i].existed /\ dl[i].failed # "none") =>
                /\ dl[i].out # "ok"
                /\ Last(dl[i].steps) = dl[i].failed
                /\ IsPrefix(dl[i].steps, DownloadSteps)
    /\ Cardinality({ i \in DOMAIN dl : Fetched(dl[i]) }) <= 1

\* prepare_data on a root without the category: the train construction
\* downloads and indexes, the test construction only warns and indexes.
C12_Witness ==
    /\ Len(dl) = 2
    /\ ~dl[1].existed /\ dl[1].out = "ok"
    /\ dl[1].steps = <<"mkdir", "fetch", "extract", "delete", "index">>
    /\ dl[2].existed /\ dl[2].steps = <<"warning", "index">>
    /\ ~fs.archive

----------------------------------------------------------------------------
(* Properties of _MvtecDataset.__getitem__ (checked under SpecDataset)     *)

ImageOnlyOps == <<"read_image", "pre_process(image)">>

\* C10 as stated: for a training split, or for a classification task on
\* either split, only the image is loaded and preprocessed and the item's
\* only key is "image".
C10_ImageOnlyItem ==
    (item.out = "ok" /\ (item.split = "train" \/ item.task = "classification"))
      => item.ops = ImageOnlyOps /\ item.keys = {"image"}

\* C10 amended: for a training split, or for a classification task on either
\* split, only the image is loaded and preprocessed; the item's only key is
\* "image" for a training split, and its keys are image, image_path and label
\* for a classification task on the test split.
C10_ImageOnlyLoads ==
    (item.out = "ok" /\ (item.split = "train" \/ item.task = "classification"))
      => /\ item.ops = ImageOnlyOps
         /\ item.keys = IF item.split = "train" THEN {"image"}
                        ELSE {"image", "image_path", "label"}

\* An item read for a classification task on the test split.
C10_Witness ==
    /\ item.out = "ok" /\ item.split = "test" /\ item.task = "classification"
    /\ item.keys = {"image", "image_path", "label"}
    /\ item.ops = ImageOnlyOps

====
